---- MODULE Spec2Model ----
(***************************************************************************)
(* Local credential authentication of the S3 / MinIO Manager:             *)
(*   - the Credential Store            (auth_store.py)                     *)
(*   - the settings document           (s3.py load_settings/save_settings) *)
(*   - the login gate and LoginFrame   (app.py)                            *)
(* and of what the unlocked application does to them and beside them:      *)
(*   - the Settings tab and the Upload tab (app.py)                        *)
(*                                                                         *)
(* Specifications:                                                         *)
(*   SpecStore    the store called directly                                *)
(*   SpecLegacy   the store with a row of an older iteration count         *)
(*   Spec         the application: gate, LoginFrame, logout, restart       *)
(*   SpecForm     the LoginFrame on every kind of input, store may fail    *)
(*   SpecStartup  the session check on every kind of settings file         *)
(*   SpecSettings the Save button of the Settings tab after a login        *)
(*   SpecRace     two applications registering one username at once        *)
(*   SpecUpload   the Upload tab: busy flag, cancel event, worker threads  *)
(*                                                                         *)
(* Strings are sequences of one-character strings, so that strip(),       *)
(* lower(), len() and the HMAC key preparation are computed, not assumed.  *)
(***************************************************************************)
EXTENDS Integers, Sequences, FiniteSets, TLC

(***************************************************************************)
(* Bounds of the model.                                                    *)
(***************************************************************************)
MaxPending == 2       \* success pulses that may run at once in a checked run
MaxWorkers == 2       \* upload worker threads that may run at once

(***************************************************************************)
(* Program constants.                                                      *)
(***************************************************************************)
PBKDF2_ITERATIONS == 240000
SESSION_DAYS == 7     \* _dt.timedelta(days=7)
MIN_USERNAME_LEN == 3 \* len(username) < 3
MIN_PASSWORD_LEN == 8 \* len(password) < 8
None == 0             \* Python None where an id is expected (ids start at 1)
NULL == -1            \* SQL NULL in the nullable column last_login

(***************************************************************************)
(* Characters and strings.                                                 *)
(***************************************************************************)
NUL == "NUL"                       \* the character U+0000
EAcute == "U+00E9"                 \* a letter outside ASCII (e with acute)
Whitespace == {" "}

\* str.lower() on the characters of the model
LowerChar(c) == IF c = "A" THEN "a" ELSE c

lower(s) == [i \in 1..Len(s) |-> LowerChar(s[i])]

RECURSIVE lstrip(_)
lstrip(s) ==
    IF s = <<>> THEN s
    ELSE IF Head(s) \in Whitespace THEN lstrip(Tail(s)) ELSE s

RECURSIVE rstrip(_)
rstrip(s) ==
    IF s = <<>> THEN s
    ELSE IF s[Len(s)] \in Whitespace THEN rstrip(SubSeq(s, 1, Len(s) - 1)) ELSE s

\* str.strip()
strip(s) == rstrip(lstrip(s))

\* username.strip().lower()
Normalize(username) == lower(strip(username))

Rep(c, n) == [i \in 1..n |-> c]

(***************************************************************************)
(* Inputs.                                                                 *)
(***************************************************************************)
\* usernames handed to the store API: one name, a variant of it in letter
\* case and surrounding whitespace, and a second name
Usernames ==
    { <<"a", "a", "_">>,
      <<" ", "a", "A", "_", " ">>,
      <<"a", "_", "a">> }

P8 == Rep("p", 8)
Q8 == Rep("q", 8)

\* passwords: two different ones, and one followed by U+0000
Passwords == { P8, Q8, P8 \o <<NUL>> }

Salts == {"s1", "s2"}              \* values secrets.token_bytes(16) may return

\* what is typed into the form of the LoginFrame under Spec: two usernames,
\* a password long enough to register with, and one that is too short
FormUsernames == { <<"a", "a", "_">>, <<"a", "_", "a">> }
P7 == Rep("p", 7)
FormPasswords == { P8, P7 }

\* the salt secrets.token_bytes(16) returns in a registration under Spec
FormSalts == {"s1"}

\* what is typed into the form under SpecForm: usernames that are too
\* short, hold a character that is no letter, digit or underscore, hold
\* nothing but underscores, hold a letter outside ASCII, need trimming and
\* lower-casing, are blank, or are plain; passwords that are empty, too short, or long
\* enough
WideUsernames ==
    { <<>>,
      <<"a", "_">>,
      <<"a", "-">>,
      <<"a", "-", "a">>,
      <<"_", "_", "_">>,
      <<EAcute, "a", "_">>,
      <<" ", "a", "A", "_", " ">>,
      <<" ", " ">>,
      <<"a", "a", "_">> }
WidePasswords == { <<>>, P7, P8, Q8 }

\* the value secrets.token_hex(16) returns in _finalize; no code reads a
\* token back, so one value other than that of StaleSession stands for all
Tokens == {"t2"}

\* the instants at which the clock is read, in days: a session written at 0
\* expires at 7, is exactly due at 7 and one day past at 8
Clock == {0, 7, 8}

(***************************************************************************)
(* Password Hashing Policy.                                                *)
(***************************************************************************)
\* HMAC prepares its key by padding it with zero bytes to the block size of
\* the hash (64 bytes for SHA-256), so trailing zero bytes of a key shorter
\* than a block do not change the key.  All passwords of the model are
\* shorter than a block.
RECURSIVE HmacKey(_)
HmacKey(password) ==
    IF password # <<>> /\ password[Len(password)] = NUL
    THEN HmacKey(SubSeq(password, 1, Len(password) - 1))
    ELSE password

\* hashlib.pbkdf2_hmac("sha256", password, salt, iterations): a function of
\* the prepared key, the salt and the iteration count, taken to be
\* collision-free on them
pbkdf2_hmac(password, salt, iterations) ==
    <<HmacKey(password), salt, iterations>>

\* _hash_password(password, salt, iterations) with a given salt
_hash_password(password, salt, iterations) ==
    [hash |-> pbkdf2_hmac(password, salt, iterations),
     salt |-> salt,
     iterations |-> iterations]

VARIABLES
    users,      \* the rows of table users
    now,        \* the clock
    ret,        \* what the last direct store call returned
    cred,       \* history: id -> the username and password the row was set with
    settings,   \* the settings file at CONFIG_PATH
    pc,         \* where the application is: "checking_session", "login" (the
                \* LoginFrame of _start_login), "main" (main UI built and
                \* unlocked), "overlay" (main UI built, locked by the re-login
                \* overlay), "exited"
    frame,      \* the LoginFrame on screen: mode, checkbox, fields, message
    pending,    \* on_done callbacks of running success pulses, oldest first
    CURRENT_USER,
    auth,       \* history: what last decided the authentication: "none",
                \* "session" (fast path), "submit" (_finalize), "logout"
    calls,      \* history: the store operations the last handler called if
                \* it was _submit, in order, and whether it ended by an
                \* exception nothing caught
    flow,       \* history: what the LoginFrame on screen has done so far:
                \* success pulses started, on_success calls, save_settings
                \* calls, and whether the last of these returned
    race,       \* two running applications on one credential database,
                \* each inside the registration branch of _submit
    upload      \* the Upload tab: _upload_busy, cancel_event, the buttons,
                \* the worker threads and the callbacks they queued

storevars == <<users, now, ret, cred>>
sidevars == <<race, upload>>
appvars == <<settings, pc, frame, pending, CURRENT_USER, auth, calls, flow,
             sidevars>>
vars == <<users, now, ret, cred, settings, pc, frame, pending, CURRENT_USER, auth,
          calls, flow, race, upload>>

(***************************************************************************)
(* Credential Store.                                                       *)
(***************************************************************************)
RECURSIVE SetMax(_)
SetMax(S) ==
    IF S = {} THEN 0
    ELSE LET x == CHOOSE y \in S : TRUE
             m == SetMax(S \ {x})
         IN IF x > m THEN x ELSE m

\* id INTEGER PRIMARY KEY AUTOINCREMENT
NextId(tbl) == SetMax({r.id : r \in tbl}) + 1

\* SELECT ... FROM users WHERE username = ?   (the rows that match)
SelectByUsername(tbl, name) == {r \in tbl : r.username = name}

\* SELECT COUNT(*) FROM users
user_count(tbl) == Cardinality(tbl)

\* the columns get_user selects
RowOfGetUser(r) ==
    [id |-> r.id, username |-> r.username, password_hash |-> r.password_hash,
     salt |-> r.salt, iterations |-> r.iterations]

\* the key get_user looks up: username.strip().lower()
LookupUsernameNoLower(username) == strip(username)
LookupUsername(username) == Normalize(username)

\* get_user(username): cur.fetchone(), as the set holding the row, or nothing
get_user(tbl, username) ==
    {RowOfGetUser(r) : r \in SelectByUsername(tbl, LookupUsername(username))}

\* the row create_user inserts
NewRow(tbl, username_norm, password, salt, t) ==
    LET h == _hash_password(password, salt, PBKDF2_ITERATIONS)
    IN [id |-> NextId(tbl),
        username |-> username_norm,
        password_hash |-> h.hash,
        salt |-> h.salt,
        iterations |-> h.iterations,
        created_at |-> t,
        updated_at |-> t,
        last_login |-> NULL]

\* username TEXT NOT NULL UNIQUE: the INSERT raises sqlite3.IntegrityError
UniqueViolatedNever(tbl, name) == FALSE
UniqueViolated(tbl, name) == SelectByUsername(tbl, name) # {}

\* username_norm of create_user
CreateUsernameNoNorm(username) == username
CreateUsername(username) == Normalize(username)

\* create_user(username, password): whether it raised, the table afterwards
\* and the id of the inserted row
create_user(tbl, username, password, salt, t) ==
    LET username_norm == CreateUsername(username)
    IN IF UniqueViolated(tbl, username_norm)
       THEN [raised |-> TRUE, users |-> tbl, id |-> None]
       ELSE [raised |-> FALSE,
             users |-> tbl \cup {NewRow(tbl, username_norm, password, salt, t)},
             id |-> NextId(tbl)]

\* username_norm of verify_user
VerifyUsernameRaw(username) == username
VerifyUsername(username) == Normalize(username)

\* the iteration count verify_user hands to _hash_password: the stored one
VerifyIterationsDefault(row) == PBKDF2_ITERATIONS
VerifyIterations(row) == row.iterations

\* secrets.compare_digest(computed, stored_hash) on the recomputed hash
HashMatchesAlways(row, password) == TRUE
HashMatches(row, password) ==
    _hash_password(password, row.salt, VerifyIterations(row)).hash
        = row.password_hash

\* if not secrets.compare_digest(computed, stored_hash): return None
VerifyFailedNever(matches) == FALSE
VerifyFailed(matches) == ~matches

\* UPDATE users SET last_login = ?, updated_at = ? WHERE id = ?
StampedRowNewSalt(row, t) ==
    [row EXCEPT !.last_login = t, !.updated_at = t, !.salt = "s0"]
StampedRow(row, t) == [row EXCEPT !.last_login = t, !.updated_at = t]

\* verify_user(username, password): the id returned (or None) and the table
\* afterwards
verify_user(tbl, username, password, t) ==
    LET rows == SelectByUsername(tbl, VerifyUsername(username))
    IN IF rows = {} THEN [id |-> None, users |-> tbl]
       ELSE LET row == CHOOSE r \in rows : TRUE
            IN IF VerifyFailed(HashMatches(row, password))
               THEN [id |-> None, users |-> tbl]
               ELSE [id |-> row.id,
                     users |-> {IF r.id = row.id THEN StampedRow(r, t)
                                ELSE r : r \in tbl}]

\* the iteration count change_password rehashes with: the default of
\* _hash_password
RehashIterationsKept(row) == row.iterations
RehashIterations(row) == PBKDF2_ITERATIONS

\* the row change_password leaves in place of row
ChangedRow(row, new_password, salt, t) ==
    LET h == _hash_password(new_password, salt, RehashIterations(row))
    IN [row EXCEPT !.password_hash = h.hash, !.salt = h.salt,
                   !.iterations = h.iterations, !.updated_at = t]

\* change_password(user_id, new_password)
change_password(tbl, user_id, new_password, salt, t) ==
    {IF r.id = user_id THEN ChangedRow(r, new_password, salt, t) ELSE r :
        r \in tbl}

(***************************************************************************)
(* History: the username and password each row was created with, and      *)
(* whether change_password has replaced the password since.                *)
(***************************************************************************)
CredAfterCreate(c, res, username, password) ==
    IF res.raised THEN c
    ELSE [i \in DOMAIN c \cup {res.id} |->
            IF i = res.id
            THEN [username |-> username, password |-> password, via |-> "create"]
            ELSE c[i]]

CredAfterChange(c, user_id, password) ==
    [i \in DOMAIN c |->
        IF i = user_id THEN [c[i] EXCEPT !.password = password, !.via = "change"]
        ELSE c[i]]

Ret(op, raised, id, rows) ==
    [op |-> op, raised |-> raised, id |-> id, rows |-> rows]

(***************************************************************************)
(* The store called directly.                                              *)
(***************************************************************************)
CallCreateUser(username, password) ==
    /\ \E salt \in Salts :
        LET res == create_user(users, username, password, salt, now)
        IN /\ users' = res.users
           /\ ret' = Ret("create_user", res.raised, res.id, {})
           /\ cred' = CredAfterCreate(cred, res, username, password)
    /\ UNCHANGED <<now, appvars>>

CallVerifyUser(username, password) ==
    LET res == verify_user(users, username, password, now)
    IN /\ users' = res.users
       /\ ret' = Ret("verify_user", FALSE, res.id, {})
       /\ UNCHANGED <<now, cred, appvars>>

CallGetUser(username) ==
    /\ ret' = Ret("get_user", FALSE, None, get_user(users, username))
    /\ UNCHANGED <<users, now, cred, appvars>>

CallChangePassword(user_id, password) ==
    /\ \E salt \in Salts :
        users' = change_password(users, user_id, password, salt, now)
    /\ ret' = Ret("change_password", FALSE, None, {})
    /\ cred' = CredAfterChange(cred, user_id, password)
    /\ UNCHANGED <<now, appvars>>

(***************************************************************************)
(* The settings document (s3.py).                                          *)
(***************************************************************************)
EmptyDict == << >>

DictSet(d, k, v) == [x \in DOMAIN d \cup {k} |-> IF x = k THEN v ELSE d[x]]
DictPop(d, k) == [x \in DOMAIN d \ {k} |-> d[x]]

\* the file: absent, not a JSON object, or a JSON object
FileAbsent == [kind |-> "absent", data |-> EmptyDict]
FileCorrupt == [kind |-> "corrupt", data |-> EmptyDict]
FileObject(d) == [kind |-> "object", data |-> d]

\* other files load_settings may find: one that cannot be read, an empty
\* one, one that is not JSON, and one that is JSON but not an object
FileUnreadable == [kind |-> "unreadable", data |-> EmptyDict]
FileEmpty == [kind |-> "empty", data |-> EmptyDict]
FileInvalid == [kind |-> "invalid", data |-> EmptyDict]
FileNotObject == [kind |-> "not_object", data |-> EmptyDict]

\* except Exception: pass -- whether an exception raised in the try block
\* leaves the function
PropagatesAll(raisedInTry) == raisedInTry
Propagates(raisedInTry) == FALSE

\* the try block of load_settings: whether it raises, and whether it returns
\* data (a truncated file is empty or is not JSON)
LoadTry(file) ==
    IF file.kind = "absent"                             \* is_file() is false
    THEN [raised |-> FALSE, returns |-> FALSE]
    ELSE IF file.kind = "unreadable"                    \* read_text raises
    THEN [raised |-> TRUE, returns |-> FALSE]
    ELSE IF file.kind = "empty"                         \* data = {}
    THEN [raised |-> FALSE, returns |-> TRUE]
    ELSE IF file.kind \in {"invalid", "corrupt"}        \* json.loads raises
    THEN [raised |-> TRUE, returns |-> FALSE]
    ELSE IF file.kind = "not_object"                    \* isinstance fails
    THEN [raised |-> FALSE, returns |-> FALSE]
    ELSE [raised |-> FALSE, returns |-> TRUE]

\* whether load_settings() raises
load_settingsRaises(file) == Propagates(LoadTry(file).raised)

\* load_settings(): {} unless the file holds a JSON object
load_settings(file) ==
    IF LoadTry(file).returns /\ file.kind = "object" THEN file.data
    ELSE EmptyDict

\* save_settings(data): the file replaced by the dump of data
save_settingsOnlySession(data) ==
    FileObject([k \in DOMAIN data \cap {"SESSION"} |-> data[k]])
save_settings(data) == FileObject(data)

\* how a call of save_settings can end: it returns, or it raises with the
\* file untouched (mkdir or the open failed), or it raises after write_text
\* has truncated the file
SaveOutcomes == {"saved", "raised_untouched", "raised_truncated"}

WriteFile(file, data, outcome) ==
    IF outcome = "saved" THEN save_settings(data)
    ELSE IF outcome = "raised_untouched" THEN file
    ELSE FileCorrupt

\* datetime.isoformat() and datetime.fromisoformat() on the text it wrote
isoformat(t) == <<"iso", t>>
fromisoformat(x) == x[2]

\* connection settings saved from the Settings tab in an earlier run
ConnCfg ==
    [k \in {"AWS_REGION", "AWS_SECRET_ACCESS_KEY"} |->
        IF k = "AWS_REGION" THEN "us-east-1" ELSE "secret"]

\* a session left in the file by hand or by an earlier run under another
\* credential database, its username not in normalized form
StaleSession ==
    [username |-> <<" ", "A", "_", "a">>, token |-> "t1",
     expires_at |-> isoformat(SESSION_DAYS)]

(***************************************************************************)
(* The login gate and the LoginFrame (app.py).                             *)
(***************************************************************************)
NoUser == [id |-> None, username |-> <<>>]     \* {"id": None, "username": None}

NoFrame ==
    [mode |-> "none", keep |-> FALSE, username |-> <<>>, password |-> <<>>,
     confirm |-> <<>>, message |-> ""]

\* self.mode = "register" if auth_user_count() == 0 else "login"
InitialModeRegister(count) == "register"
InitialMode(count) == IF count = 0 THEN "register" ELSE "login"

\* LoginFrame.__init__
LoginFrame(tbl) ==
    [mode |-> InitialMode(user_count(tbl)),
     keep |-> TRUE,
     username |-> <<>>, password |-> <<>>, confirm |-> <<>>,
     message |-> ""]

HasSession(cfg) == "SESSION" \in DOMAIN cfg

\* JSON values of the SESSION key that are not objects: null, and a string
JsonNull == [json |-> "null"]
JsonString == [json |-> "string"]
IsObject(v) == "json" \notin DOMAIN v

\* Python truth of a JSON value: null and {} are false
Falsy(v) == DOMAIN v = {} \/ ("json" \in DOMAIN v /\ v.json = "null")

\* an expires_at text datetime.fromisoformat cannot parse
BadExpiry == <<"text", 0>>
Parseable(x) == x[1] = "iso"

\* the comparison dt > datetime.datetime.now() of the fast path
NotExpiredOrNow(dt, t) == dt >= t
NotExpired(dt, t) == dt > t

\* the try block of the fast path of _start_login: the row auth_get_user
\* returned (if it was reached), and whether the block raised
FastPath(cfg, tbl, t) ==
    LET v == IF HasSession(cfg) THEN cfg["SESSION"] ELSE EmptyDict
        sess == IF Falsy(v) THEN EmptyDict ELSE v      \* ... or {}
        Out(rows, raised) == [rows |-> rows, raised |-> raised]
    IN IF ~IsObject(sess) THEN Out({}, TRUE)           \* sess.get raises
       ELSE IF ~(/\ "username" \in DOMAIN sess /\ sess.username # <<>>
                 /\ "expires_at" \in DOMAIN sess)
       THEN Out({}, FALSE)
       ELSE IF ~Parseable(sess.expires_at) THEN Out({}, TRUE)
       ELSE IF ~NotExpired(fromisoformat(sess.expires_at), t)
       THEN Out({}, FALSE)
       ELSE Out(get_user(tbl, sess.username), FALSE)

\* the fast path of _start_login: the rows that let the session in
AutoLoginRows(cfg, tbl, t) == FastPath(cfg, tbl, t).rows

Calls(ops, raised) == [ops |-> ops, raised |-> raised]
NoCalls == Calls(<<>>, FALSE)

\* a LoginFrame that has just been built
NoFlow == [pulses |-> 0, handoffs |-> 0, writes |-> 0, saved |-> FALSE]

\* the two applications of the registration race, not running
Procs == {1, 2}
NoRace ==
    [p \in Procs |-> [at |-> "off", username |-> <<>>, password |-> <<>>,
                      checked |-> FALSE, created |-> FALSE, result |-> "none",
                      user_id |-> None]]

\* the Upload and Download tabs as the module builds them: _upload_busy =
\* False, cancel_event clear, both upload buttons disabled, empty fields, no
\* thread
NoUpload ==
    [busy |-> FALSE, cancel_event |-> FALSE, up_btn_start |-> "disabled",
     up_btn_cancel |-> "disabled", form |-> "empty", workers |-> <<>>,
     rearms |-> 0, dl_btn_start |-> "normal", dl |-> "idle"]

\* _start_login up to the point where it returns or waits in its mainloop
_start_login ==
    /\ pc = "checking_session"
    /\ LET cfg == load_settings(settings)
           fast == FastPath(cfg, users, now)
           rows == AutoLoginRows(cfg, users, now)
       IN IF load_settingsRaises(settings) \/ Propagates(fast.raised)
          THEN /\ pc' = "exited"
               /\ UNCHANGED <<frame, CURRENT_USER, auth>>
          ELSE IF rows # {}
          THEN /\ CURRENT_USER' = [id |-> (CHOOSE r \in rows : TRUE).id,
                                   username |-> cfg["SESSION"].username]
               /\ pc' = "main"
               /\ auth' = "session"
               /\ UNCHANGED frame
          ELSE /\ frame' = LoginFrame(users)
               /\ pc' = "login"
               /\ UNCHANGED <<CURRENT_USER, auth>>
    /\ calls' = NoCalls
    /\ flow' = NoFlow
    /\ UNCHANGED <<sidevars, storevars, settings, pending>>

FrameShown == pc \in {"login", "overlay"}

\* the user fills the entries (they are disabled while a pulse runs)
TypeFields(u, p, c) ==
    /\ FrameShown /\ pending = <<>>
    /\ frame' = [frame EXCEPT !.username = u, !.password = p, !.confirm = c]
    /\ calls' = NoCalls
    /\ UNCHANGED <<flow, sidevars, storevars, settings, pc, pending,
                   CURRENT_USER, auth>>

\* the "Keep me signed in" checkbutton
ToggleKeep ==
    /\ FrameShown
    /\ frame' = [frame EXCEPT !.keep = ~frame.keep]
    /\ calls' = NoCalls
    /\ UNCHANGED <<flow, sidevars, storevars, settings, pc, pending,
                   CURRENT_USER, auth>>

\* the fields of the frame after _toggle_mode, with _refresh_usernames and
\* _update_mode
ToggledFrameKeepsPassword(f) ==
    LET mode == IF f.mode = "login" THEN "register" ELSE "login"
    IN [f EXCEPT !.mode = mode,
                 !.username = IF mode = "register" THEN <<>> ELSE @,
                 !.message = ""]
ToggledFrame(f) ==
    LET mode == IF f.mode = "login" THEN "register" ELSE "login"
    IN [f EXCEPT !.mode = mode,
                 !.password = <<>>,
                 !.confirm = <<>>,
                 !.username = IF mode = "register" THEN <<>> ELSE @,
                 !.message = ""]

\* LoginFrame._toggle_mode, with _refresh_usernames and _update_mode
_toggle_mode ==
    /\ FrameShown
    /\ frame' = ToggledFrame(frame)
    /\ calls' = NoCalls
    /\ UNCHANGED <<flow, sidevars, storevars, settings, pc, pending,
                   CURRENT_USER, auth>>

\* str.replace("_", "")
WithoutUnderscore(s) == SelectSeq(s, LAMBDA ch : ch # "_")

\* str.isalnum() on the characters of the model
AlnumChars == {"a", "A", "p", "q", EAcute}
isalnum(s) == s # <<>> /\ \A i \in 1..Len(s) : s[i] \in AlnumChars

\* the store operation that fails with a store error (sqlite3.Error: the
\* database cannot be opened or written) when the handler calls it; "none":
\* every operation works
StoreFaults == {"none", "get_user", "create_user", "verify_user"}

\* under Spec the store works
SpecFaults == {"none"}

\* the local checks of a register submission, in the order of the code: the
\* message of the first one that fails, "" if all pass
RegisterChecksMismatchFirst(username, password, confirm) ==
    IF password # confirm THEN "mismatch"
    ELSE IF Len(username) < MIN_USERNAME_LEN THEN "username_short"
    ELSE IF ~isalnum(WithoutUnderscore(username)) THEN "username_chars"
    ELSE IF Len(password) < MIN_PASSWORD_LEN THEN "password_short"
    ELSE ""
RegisterChecksNoConfirm(username, password, confirm) ==
    IF Len(username) < MIN_USERNAME_LEN THEN "username_short"
    ELSE IF ~isalnum(WithoutUnderscore(username)) THEN "username_chars"
    ELSE IF Len(password) < MIN_PASSWORD_LEN THEN "password_short"
    ELSE ""
RegisterChecks(username, password, confirm) ==
    IF Len(username) < MIN_USERNAME_LEN THEN "username_short"
    ELSE IF ~isalnum(WithoutUnderscore(username)) THEN "username_chars"
    ELSE IF Len(password) < MIN_PASSWORD_LEN THEN "password_short"
    ELSE IF password # confirm THEN "mismatch"
    ELSE ""

\* if not username or not password
FieldsMissingNever(username, password) == FALSE
FieldsMissing(username, password) == username = <<>> \/ password = <<>>

\* if user_id is None
LoginFailedNever(user_id) == FALSE
LoginFailed(user_id) == user_id = None

\* the outcome of LoginFrame._submit on the fields: the message shown, the
\* table afterwards, the id handed to the success pulse (None: no pulse),
\* whether a row was inserted, the store operations called and whether one
\* of them raised (nothing in _submit catches it: the message stays)
SubmitOutcome(f, tbl, salt, t, fault) ==
    LET username == lower(strip(f.username))
        password == f.password
        Fail(msg, ops) ==
            [message |-> msg, users |-> tbl, id |-> None, created |-> FALSE,
             ops |-> ops, raised |-> FALSE]
        Raise(ops, tbl2, created) ==
            [message |-> f.message, users |-> tbl2, id |-> None,
             created |-> created, ops |-> ops, raised |-> TRUE]
        local == RegisterChecks(username, password, f.confirm)
    IN IF f.mode = "login"
       THEN IF FieldsMissing(username, password) THEN Fail("enter_both", <<>>)
            ELSE IF fault = "verify_user"
            THEN Raise(<<"verify_user">>, tbl, FALSE)
            ELSE LET v == verify_user(tbl, username, password, t)
                 IN IF LoginFailed(v.id) THEN Fail("invalid", <<"verify_user">>)
                    ELSE [message |-> f.message, users |-> v.users, id |-> v.id,
                          created |-> FALSE, ops |-> <<"verify_user">>,
                          raised |-> FALSE]
       ELSE IF local # "" THEN Fail(local, <<>>)
            ELSE IF fault = "get_user" THEN Raise(<<"get_user">>, tbl, FALSE)
            ELSE IF get_user(tbl, username) # {}
            THEN Fail("exists", <<"get_user">>)
            ELSE LET c == create_user(tbl, username, password, salt, t)
                     v == verify_user(c.users, username, password, t)
                 IN IF fault = "create_user" \/ c.raised
                    THEN Raise(<<"get_user", "create_user">>, tbl, FALSE)
                    ELSE IF fault = "verify_user"
                    THEN Raise(<<"get_user", "create_user", "verify_user">>,
                               c.users, TRUE)
                    ELSE IF v.id = None
                    THEN [message |-> "unexpected", users |-> c.users,
                          id |-> None, created |-> TRUE,
                          ops |-> <<"get_user", "create_user", "verify_user">>,
                          raised |-> FALSE]
                    ELSE [message |-> f.message, users |-> v.users,
                          id |-> v.id, created |-> TRUE,
                          ops |-> <<"get_user", "create_user", "verify_user">>,
                          raised |-> FALSE]

\* LoginFrame._submit (the primary button or <Return>); a success starts the
\* success pulse, whose on_done callback is _finalize
_submit(salt, fault) ==
    /\ FrameShown
    /\ Len(pending) < MaxPending
    /\ LET out == SubmitOutcome(frame, users, salt, now, fault)
           username == lower(strip(frame.username))
       IN /\ users' = out.users
          /\ frame' = [frame EXCEPT !.message = out.message]
          /\ pending' = IF out.id = None THEN pending
                        ELSE Append(pending, [user_id |-> out.id,
                                              username |-> username])
          /\ cred' = IF out.created
                     THEN CredAfterCreate(cred,
                             [raised |-> FALSE, id |-> NextId(users)],
                             username, frame.password)
                     ELSE cred
          /\ calls' = Calls(out.ops, out.raised)
          /\ flow' = IF out.id = None THEN flow
                     ELSE [flow EXCEPT !.pulses = @ + 1]
    /\ UNCHANGED <<sidevars, now, ret, settings, pc, CURRENT_USER, auth>>

\* the SESSION object _finalize writes
NewSession(username, token, t) ==
    [username |-> username, token |-> token,
     expires_at |-> isoformat(t + SESSION_DAYS)]

\* the settings _finalize saves
FinalizeCfgKeepOld(cfg, keep, username, token, t) ==
    IF keep /\ ~HasSession(cfg)
    THEN DictSet(cfg, "SESSION", NewSession(username, token, t))
    ELSE IF keep THEN cfg ELSE DictPop(cfg, "SESSION")
FinalizeCfgNoPop(cfg, keep, username, token, t) ==
    IF keep
    THEN DictSet(cfg, "SESSION", NewSession(username, token, t))
    ELSE cfg
FinalizeCfg(cfg, keep, username, token, t) ==
    IF keep
    THEN DictSet(cfg, "SESSION", NewSession(username, token, t))
    ELSE DictPop(cfg, "SESSION")

\* on_success(user_id, username): _success of _start_login and of
\* show_login_overlay
OnSuccessUserStale(uid, uname) == [id |-> uid, username |-> CURRENT_USER.username]
OnSuccessUser(uid, uname) == [id |-> uid, username |-> uname]

\* the callbacks of the LoginFrame that are still scheduled once on_success
\* has destroyed it: destroy() deletes the Tcl commands of the frame's after
\* callbacks, so none of them runs
ScheduledAfterDestroyKept(p) == Tail(p)
ScheduledAfterDestroy(p) == <<>>

\* LoginFrame._finalize, run when the oldest success pulse ends, with the
\* given end of its save_settings call (an exception is swallowed);
\* on_success destroys the LoginFrame, and with it the callbacks it still had
\* scheduled
Finalize(outcome) ==
    /\ pending # <<>>
    /\ LET job == Head(pending)
       IN /\ \E token \in Tokens :
               settings' = WriteFile(settings,
                   FinalizeCfg(load_settings(settings), frame.keep,
                               job.username, token, now), outcome)
          /\ CURRENT_USER' = OnSuccessUser(job.user_id, job.username)
    /\ pc' = "main"
    /\ auth' = "submit"
    /\ frame' = NoFrame
    /\ pending' = ScheduledAfterDestroy(pending)
    /\ calls' = NoCalls
    /\ flow' = [flow EXCEPT !.handoffs = @ + 1, !.writes = @ + 1,
                            !.saved = (outcome = "saved")]
    /\ UNCHANGED <<sidevars, storevars>>

_finalize == \E outcome \in SaveOutcomes : Finalize(outcome)

Exit ==
    /\ pc' = "exited"
    /\ frame' = NoFrame
    /\ pending' = <<>>
    /\ CURRENT_USER' = NoUser
    /\ calls' = NoCalls
    /\ flow' = NoFlow
    /\ UNCHANGED <<sidevars, storevars, settings, auth>>

\* on_cancel (<Escape>): _cancel of _start_login exits; _cancel of
\* show_login_overlay asks, and exits or keeps the overlay
CancelOutcomeUnlocks(where, quit) ==
    IF where = "login" \/ quit THEN "exit" ELSE "unlock"
CancelOutcome(where, quit) ==
    IF where = "login" \/ quit THEN "exit" ELSE "stay"

_cancel ==
    /\ FrameShown
    /\ \E quit \in BOOLEAN :
        LET outcome == CancelOutcome(pc, quit)
        IN IF outcome = "exit" THEN Exit
           ELSE IF outcome = "stay" THEN UNCHANGED vars
           ELSE /\ pc' = "main"              \* the overlay is taken down
                /\ frame' = NoFrame
                /\ pending' = <<>>
                /\ calls' = NoCalls
                /\ UNCHANGED <<flow, sidevars, storevars, settings,
                               CURRENT_USER, auth>>

\* the window is closed: the mainloop ends and the process with it
CloseWindow ==
    /\ pc \in {"login", "main", "overlay"}
    /\ Exit

\* on_logout of the topbar: show_login_overlay(root, card)
Logout ==
    /\ pc = "main"
    /\ pc' = "overlay"
    /\ frame' = LoginFrame(users)
    /\ auth' = "logout"
    /\ calls' = NoCalls
    /\ flow' = NoFlow
    /\ UNCHANGED <<sidevars, storevars, settings, pending, CURRENT_USER>>

\* the application is started again
Launch ==
    /\ pc = "exited"
    /\ pc' = "checking_session"
    /\ calls' = NoCalls
    /\ UNCHANGED <<flow, sidevars, storevars, settings, frame, pending,
                   CURRENT_USER, auth>>

\* time passes
Tick ==
    /\ \E t \in Clock : t > now /\ now' = t
    /\ UNCHANGED <<users, ret, cred, appvars>>

InitStore ==
    /\ users = {}
    /\ now = 0
    /\ ret = Ret("none", FALSE, None, {})
    /\ cred = << >>

\* the store alone: the application is not running
InitStoreOnly ==
    /\ InitStore
    /\ settings = FileAbsent
    /\ pc = "exited"
    /\ frame = NoFrame
    /\ pending = <<>>
    /\ CURRENT_USER = NoUser
    /\ auth = "none"
    /\ calls = NoCalls
    /\ flow = NoFlow
    /\ race = NoRace
    /\ upload = NoUpload

NextStore ==
    \/ \E u \in Usernames, p \in Passwords : CallCreateUser(u, p)
    \/ \E u \in Usernames, p \in Passwords : CallVerifyUser(u, p)
    \/ \E u \in Usernames : CallGetUser(u)
    \/ \E i \in 1..(Cardinality(users) + 1), p \in Passwords :
            CallChangePassword(i, p)

SpecStore == InitStoreOnly /\ [][NextStore]_vars

(***************************************************************************)
(* The store of an installation whose database was created by a release    *)
(* with a lower PBKDF2_ITERATIONS.                                         *)
(***************************************************************************)
OlderIterations == PBKDF2_ITERATIONS \div 2

\* the row create_user("aa_", P8) inserted under the older default
LegacyRow ==
    LET h == _hash_password(P8, "s1", OlderIterations)
    IN [id |-> 1, username |-> <<"a", "a", "_">>,
        password_hash |-> h.hash, salt |-> h.salt, iterations |-> h.iterations,
        created_at |-> 0, updated_at |-> 0, last_login |-> NULL]

InitLegacy ==
    /\ users = {LegacyRow}
    /\ now = 0
    /\ ret = Ret("none", FALSE, None, {})
    /\ cred = CredAfterCreate(<< >>, [raised |-> FALSE, id |-> 1],
                              <<"a", "a", "_">>, P8)
    /\ settings = FileAbsent
    /\ pc = "exited"
    /\ frame = NoFrame
    /\ pending = <<>>
    /\ CURRENT_USER = NoUser
    /\ auth = "none"
    /\ calls = NoCalls
    /\ flow = NoFlow
    /\ race = NoRace
    /\ upload = NoUpload

SpecLegacy == InitLegacy /\ [][NextStore]_vars

InitApp ==
    /\ settings \in {FileAbsent,
                     FileObject(DictSet(ConnCfg, "SESSION", StaleSession))}
    /\ pc = "checking_session"
    /\ frame = NoFrame
    /\ pending = <<>>
    /\ CURRENT_USER = NoUser
    /\ auth = "none"
    /\ calls = NoCalls
    /\ flow = NoFlow
    /\ race = NoRace
    /\ upload = NoUpload

Init == InitStore /\ InitApp

Next ==
    \/ _start_login
    \/ \E u \in FormUsernames, p \in FormPasswords : TypeFields(u, p, p)
    \/ ToggleKeep
    \/ _toggle_mode
    \/ \E salt \in FormSalts, fault \in SpecFaults : _submit(salt, fault)
    \/ _finalize
    \/ _cancel
    \/ CloseWindow
    \/ Logout
    \/ Launch
    \/ Tick

Spec == Init /\ [][Next]_vars

(***************************************************************************)
(* The start of the application on every kind of settings file.           *)
(***************************************************************************)
\* the table after create_user("aa_", P8) on the empty table
RegisteredTable == create_user({}, <<"a", "a", "_">>, P8, "s1", 0).users

\* sessions as _finalize writes them and damaged ones: for a registered
\* user, for nobody; without username, without expiry, with an expiry that
\* does not parse, with an empty username
SessionFor(username, t) ==
    [username |-> username, token |-> "t1", expires_at |-> isoformat(t)]
StartupSessions ==
    { SessionFor(<<"a", "a", "_">>, SESSION_DAYS),
      SessionFor(<<"a", "_", "a">>, SESSION_DAYS),
      SessionFor(<<>>, SESSION_DAYS),
      [token |-> "t1", expires_at |-> isoformat(SESSION_DAYS)],
      [username |-> <<"a", "a", "_">>, token |-> "t1"],
      [username |-> <<"a", "a", "_">>, token |-> "t1", expires_at |-> BadExpiry],
      JsonNull,
      JsonString,
      EmptyDict }

StartupFiles ==
    {FileAbsent, FileUnreadable, FileEmpty, FileInvalid, FileNotObject,
     FileObject(ConnCfg)}
    \cup {FileObject(DictSet(ConnCfg, "SESSION", v)) : v \in StartupSessions}

InitStartup ==
    /\ users \in {{}, RegisteredTable}
    /\ now = 0
    /\ ret = Ret("none", FALSE, None, {})
    /\ cred = IF users = {} THEN << >>
              ELSE CredAfterCreate(<< >>, [raised |-> FALSE, id |-> 1],
                                   <<"a", "a", "_">>, P8)
    /\ settings \in StartupFiles
    /\ pc = "checking_session"
    /\ frame = NoFrame
    /\ pending = <<>>
    /\ CURRENT_USER = NoUser
    /\ auth = "none"
    /\ calls = NoCalls
    /\ flow = NoFlow
    /\ race = NoRace
    /\ upload = NoUpload

NextStartup ==
    \/ _start_login
    \/ _toggle_mode
    \/ _cancel
    \/ CloseWindow
    \/ Launch
    \/ Tick

SpecStartup == InitStartup /\ [][NextStartup]_vars

(***************************************************************************)
(* The LoginFrame alone, on a store that is empty or holds one user, with  *)
(* every kind of input in its fields and a store that may fail.            *)
(***************************************************************************)
InitForm ==
    /\ users \in {{}, RegisteredTable}
    /\ now = 0
    /\ ret = Ret("none", FALSE, None, {})
    /\ cred = IF users = {} THEN << >>
              ELSE CredAfterCreate(<< >>, [raised |-> FALSE, id |-> 1],
                                   <<"a", "a", "_">>, P8)
    /\ settings = FileAbsent
    /\ pc = "login"
    /\ frame = LoginFrame(users)
    /\ pending = <<>>
    /\ CURRENT_USER = NoUser
    /\ auth = "none"
    /\ calls = NoCalls
    /\ flow = NoFlow
    /\ race = NoRace
    /\ upload = NoUpload

NextForm ==
    \/ \E u \in WideUsernames, p \in WidePasswords, c \in WidePasswords :
            TypeFields(u, p, c)
    \/ _toggle_mode
    \/ \E salt \in FormSalts, fault \in StoreFaults : _submit(salt, fault)
    \/ _finalize

SpecForm == InitForm /\ [][NextForm]_vars

(***************************************************************************)
(* The Settings tab of the unlocked application, on a settings file that   *)
(* also holds the theme _toggle_theme wrote.                               *)
(***************************************************************************)
Regions == {"us-east-1", "eu-west-1"}
SecretKeys == {"", "secret"}

\* _collect_settings(): the connection keys, read from the fields of the tab
_collect_settings(region, secret) ==
    [k \in {"AWS_REGION", "AWS_SECRET_ACCESS_KEY"} |->
        IF k = "AWS_REGION" THEN region ELSE secret]

\* missing of _on_settings_save: a required field is empty
MissingRequired(data) == data["AWS_SECRET_ACCESS_KEY"] = ""

\* the dictionary _persist_settings hands to save_settings: what
\* _collect_settings returned, nothing of the file
Persisted(cfg, data) == data

\* _on_settings_save (the Save button of the Settings tab) with
\* _persist_settings; an exception of save_settings leaves the handler
_on_settings_save(region, secret, outcome) ==
    /\ pc = "main"
    /\ LET data == _collect_settings(region, secret)
       IN settings' = IF MissingRequired(data) THEN settings
                      ELSE WriteFile(settings,
                               Persisted(load_settings(settings), data),
                               outcome)
    /\ calls' = NoCalls
    /\ UNCHANGED <<flow, sidevars, storevars, pc, frame, pending,
                   CURRENT_USER, auth>>

InitSettings ==
    /\ users = RegisteredTable
    /\ now = 0
    /\ ret = Ret("none", FALSE, None, {})
    /\ cred = CredAfterCreate(<< >>, [raised |-> FALSE, id |-> 1],
                              <<"a", "a", "_">>, P8)
    /\ settings = FileObject(DictSet(ConnCfg, "UI_DARK", TRUE))
    /\ pc = "checking_session"
    /\ frame = NoFrame
    /\ pending = <<>>
    /\ CURRENT_USER = NoUser
    /\ auth = "none"
    /\ calls = NoCalls
    /\ flow = NoFlow
    /\ race = NoRace
    /\ upload = NoUpload

NextSettings ==
    \/ _start_login
    \/ TypeFields(<<"a", "a", "_">>, P8, <<>>)
    \/ ToggleKeep
    \/ \E salt \in FormSalts, fault \in SpecFaults : _submit(salt, fault)
    \/ _finalize
    \/ \E region \in Regions, secret \in SecretKeys, outcome \in SaveOutcomes :
            _on_settings_save(region, secret, outcome)
    \/ CloseWindow
    \/ Launch
    \/ Tick

SpecSettings == InitSettings /\ [][NextSettings]_vars

(***************************************************************************)
(* Two running applications on one credential database (DB_PATH is a file  *)
(* in the home directory), each with the registration form filled in and   *)
(* submitted; their store calls interleave, each call being one sqlite     *)
(* transaction.                                                            *)
(***************************************************************************)
RaceUsernames == {<<"a", "a", "_">>, <<" ", "a", "A", "_", " ">>}
RacePasswords == {P8, Q8}

\* username of _submit
RaceUsername(p) == lower(strip(race[p].username))

\* _submit of application p up to and including its auth_get_user call
RaceGetUser(p) ==
    /\ race[p].at = "form"
    /\ RegisterChecks(RaceUsername(p), race[p].password, race[p].password) = ""
    /\ race' = [race EXCEPT ![p] =
                    IF get_user(users, RaceUsername(p)) # {}
                    THEN [@ EXCEPT !.at = "done", !.result = "exists"]
                    ELSE [@ EXCEPT !.at = "checked", !.checked = TRUE]]
    /\ UNCHANGED <<storevars, settings, pc, frame, pending, CURRENT_USER,
                   auth, calls, flow, upload>>

\* its auth_create_user call; the IntegrityError of a second insert leaves
\* _submit, nothing catches it
RaceCreateUser(p, salt) ==
    /\ race[p].at = "checked"
    /\ LET c == create_user(users, RaceUsername(p), race[p].password, salt, now)
       IN /\ users' = c.users
          /\ cred' = CredAfterCreate(cred, c, RaceUsername(p), race[p].password)
          /\ race' = [race EXCEPT ![p] =
                         IF c.raised
                         THEN [@ EXCEPT !.at = "done", !.result = "raised"]
                         ELSE [@ EXCEPT !.at = "created", !.created = TRUE]]
    /\ UNCHANGED <<now, ret, settings, pc, frame, pending, CURRENT_USER, auth,
                   calls, flow, upload>>

\* its auth_verify_user call and the start of the success pulse
RaceVerifyUser(p) ==
    /\ race[p].at = "created"
    /\ LET v == verify_user(users, RaceUsername(p), race[p].password, now)
       IN /\ users' = v.users
          /\ race' = [race EXCEPT ![p] =
                         IF v.id = None
                         THEN [@ EXCEPT !.at = "done", !.result = "unexpected"]
                         ELSE [@ EXCEPT !.at = "done", !.result = "pulse",
                                        !.user_id = v.id]]
    /\ UNCHANGED <<now, ret, cred, settings, pc, frame, pending, CURRENT_USER,
                   auth, calls, flow, upload>>

InitRace ==
    /\ InitStore
    /\ settings = FileAbsent
    /\ pc = "login"
    /\ frame = LoginFrame(users)
    /\ pending = <<>>
    /\ CURRENT_USER = NoUser
    /\ auth = "none"
    /\ calls = NoCalls
    /\ flow = NoFlow
    /\ race \in [Procs -> {[at |-> "form", username |-> u, password |-> p,
                             checked |-> FALSE, created |-> FALSE,
                             result |-> "none", user_id |-> None] :
                                u \in RaceUsernames, p \in RacePasswords}]
    /\ upload = NoUpload

NextRace ==
    \/ \E p \in Procs : RaceGetUser(p)
    \/ \E p \in Procs, salt \in FormSalts : RaceCreateUser(p, salt)
    \/ \E p \in Procs : RaceVerifyUser(p)

SpecRace == InitRace /\ [][NextRace]_vars

(***************************************************************************)
(* The Upload tab of the unlocked application, with the Download tab as    *)
(* far as it shares cancel_event and _rearm with it.  The fields are       *)
(* "empty" (no bucket or no file), "invalid" (filled in, but upload_start  *)
(* rejects them) or "valid"; each worker thread carries whether            *)
(* upload_cancel was pressed while it ran.                                 *)
(***************************************************************************)
UploadForms == {"empty", "invalid", "valid"}

\* the state _refresh_upload_button gives the Start Upload button
RefreshedStart(u) ==
    IF u.form # "empty" /\ ~u.busy THEN "normal" ELSE "disabled"

\* the state _maybe_enable_upload gives it
MaybeEnabledStart(u) == IF u.form # "empty" THEN "normal" ELSE "disabled"

UploadOnly ==
    UNCHANGED <<storevars, settings, pc, frame, pending, CURRENT_USER, auth,
                calls, flow, race>>

\* the user edits bucket, file or key: the write traces run
\* _on_upload_field_change and then _refresh_upload_button
EditUploadFields(form) ==
    /\ pc = "main"
    /\ form # upload.form
    /\ LET u == [upload EXCEPT !.form = form]
       IN upload' = [u EXCEPT !.up_btn_start = RefreshedStart(u)]
    /\ UploadOnly

\* the "create bucket" checkbutton: its write trace runs
\* _on_upload_field_change alone
ToggleCreateBucket ==
    /\ pc = "main"
    /\ upload' = [upload EXCEPT !.up_btn_start = MaybeEnabledStart(upload)]
    /\ UploadOnly

\* _refresh_upload_button, every 300 ms
_refresh_upload_button ==
    /\ pc = "main"
    /\ upload' = [upload EXCEPT !.up_btn_start = RefreshedStart(upload)]
    /\ UploadOnly

\* upload_start (the Start Upload button, when it is enabled); statFails:
\* os.stat raises on the file os.path.isfile accepted
upload_start(statFails) ==
    /\ pc = "main"
    /\ upload.up_btn_start = "normal"
    /\ Len(upload.workers) < MaxWorkers
    /\ upload' =
        IF upload.form # "valid"
        THEN [upload EXCEPT !.busy = TRUE]
        ELSE IF statFails
        THEN [upload EXCEPT !.busy = TRUE, !.cancel_event = FALSE,
                            !.up_btn_start = "normal",
                            !.up_btn_cancel = "disabled"]
        ELSE [upload EXCEPT !.busy = TRUE, !.cancel_event = FALSE,
                            !.up_btn_start = "disabled",
                            !.up_btn_cancel = "normal",
                            !.workers = Append(@, [cancelled |-> FALSE])]
    /\ UploadOnly

\* upload_cancel (the Cancel button, when it is enabled)
upload_cancel ==
    /\ pc = "main"
    /\ upload.up_btn_cancel = "normal"
    /\ LET u == [upload EXCEPT !.cancel_event = TRUE, !.busy = FALSE,
                               !.workers = [i \in DOMAIN @ |->
                                               [cancelled |-> TRUE]]]
       IN upload' = [u EXCEPT !.up_btn_start = RefreshedStart(u)]
    /\ UploadOnly

\* worker of upload_start comes to its end (uploaded, failed, or stopped by
\* cancel_event) and queues _rearm(up_btn_start, up_btn_cancel)
UploadWorkerEnds(i) ==
    /\ i \in DOMAIN upload.workers
    /\ upload.rearms < MaxWorkers
    /\ upload' = [upload EXCEPT
                    !.workers = [j \in 1..(Len(@) - 1) |->
                                    IF j < i THEN @[j] ELSE @[j + 1]],
                    !.rearms = @ + 1]
    /\ UploadOnly

\* download_start with fields it accepts
download_start ==
    /\ pc = "main"
    /\ upload.dl_btn_start = "normal"
    /\ upload' = [upload EXCEPT !.cancel_event = FALSE,
                                !.dl_btn_start = "disabled",
                                !.dl = "running"]
    /\ UploadOnly

\* download_cancel (its button is enabled from download_start to _rearm)
download_cancel ==
    /\ pc = "main"
    /\ upload.dl_btn_start = "disabled"
    /\ upload' = [upload EXCEPT !.cancel_event = TRUE]
    /\ UploadOnly

\* worker of download_start comes to its end and queues
\* _rearm(dl_btn_start, dl_btn_cancel)
DownloadWorkerEnds ==
    /\ upload.dl = "running"
    /\ upload' = [upload EXCEPT !.dl = "ended"]
    /\ UploadOnly

\* _rearm(start_btn, cancel_btn), queued by a worker of the given tab; it
\* ends with _refresh_upload_button and _update_upload_summary, which calls
\* _maybe_enable_upload
_rearm(tab) ==
    /\ IF tab = "upload" THEN upload.rearms > 0 ELSE upload.dl = "ended"
    /\ LET u == IF tab = "upload"
                THEN [upload EXCEPT !.busy = FALSE, !.rearms = @ - 1,
                                    !.up_btn_cancel = "disabled"]
                ELSE [upload EXCEPT !.busy = FALSE, !.dl = "idle",
                                    !.dl_btn_start = "normal"]
       IN upload' = [u EXCEPT !.up_btn_start = MaybeEnabledStart(u)]
    /\ UploadOnly

InitUpload ==
    /\ users = RegisteredTable
    /\ now = 0
    /\ ret = Ret("none", FALSE, None, {})
    /\ cred = CredAfterCreate(<< >>, [raised |-> FALSE, id |-> 1],
                              <<"a", "a", "_">>, P8)
    /\ settings = FileObject(ConnCfg)
    /\ pc = "main"
    /\ frame = NoFrame
    /\ pending = <<>>
    /\ CURRENT_USER = [id |-> 1, username |-> <<"a", "a", "_">>]
    /\ auth = "submit"
    /\ calls = NoCalls
    /\ flow = NoFlow
    /\ race = NoRace
    /\ upload = NoUpload

NextUpload ==
    \/ \E form \in UploadForms : EditUploadFields(form)
    \/ ToggleCreateBucket
    \/ _refresh_upload_button
    \/ \E statFails \in BOOLEAN : upload_start(statFails)
    \/ upload_cancel
    \/ \E i \in 1..MaxWorkers : UploadWorkerEnds(i)
    \/ download_start
    \/ download_cancel
    \/ DownloadWorkerEnds
    \/ \E tab \in {"upload", "download"} : _rearm(tab)

SpecUpload == InitUpload /\ [][NextUpload]_vars


(***************************************************************************)
(* Statements about the Credential Store (checked under SpecStore).       *)
(***************************************************************************)
\* p and q are the same string up to U+0000 characters at the end
RECURSIVE WithoutTrailingNul(_)
WithoutTrailingNul(p) ==
    IF p = <<>> THEN p
    ELSE IF p[Len(p)] = NUL THEN WithoutTrailingNul(SubSeq(p, 1, Len(p) - 1))
    ELSE p

SameUpToTrailingNul(p, q) == WithoutTrailingNul(p) = WithoutTrailingNul(q)

\* u and v differ at most in letter case and surrounding whitespace
SameNormalized(u, v) == Normalize(u) = Normalize(v)

\* C1: the store never holds two records whose usernames have the same
\* normalized (trimmed, lower-cased) form, and every stored username is in
\* normalized form.
C1_OneRecordPerUsername ==
    /\ \A r1, r2 \in users : SameNormalized(r1.username, r2.username) => r1 = r2
    /\ \A r \in users : r.username = Normalize(r.username)

\* a duplicate was rejected while two records are stored
C1_Witness ==
    /\ Cardinality(users) = 2
    /\ ret.op = "create_user" /\ ret.raised

C4_DuplicateRejected ==
    [][ret'.op = "create_user" =>
       \A u \in Usernames, p \in Passwords :
        (CallCreateUser(u, p) /\ \E r \in users : SameNormalized(r.username, u)) =>
            /\ ret'.raised
            /\ users' = users
      ]_vars

\* a create_user was rejected for a username that is stored in another
\* spelling
C4_Witness ==
    /\ ret.op = "create_user" /\ ret.raised
    /\ \E i \in DOMAIN cred : cred[i].username # Normalize(cred[i].username)

\* C5: get_user(v) returns the record created by create_user(u, pw) for
\* every v that differs from u at most in letter case and surrounding
\* whitespace, and nothing for a username whose normalized form was never
\* created.
C5_GetUserNormalized ==
    [][ret'.op = "get_user" =>
       \A v \in Usernames :
        CallGetUser(v) =>
            /\ \A i \in DOMAIN cred :
                SameNormalized(v, cred[i].username) =>
                    /\ {r.id : r \in ret'.rows} = {i}
                    /\ \A r \in ret'.rows : r.username = Normalize(cred[i].username)
            /\ (\A i \in DOMAIN cred : ~SameNormalized(v, cred[i].username)) =>
                    ret'.rows = {}
      ]_vars

\* get_user found a record created under another spelling of the username
C5_Witness ==
    /\ ret.op = "get_user" /\ ret.rows # {}
    /\ \E r \in ret.rows : cred[r.id].username # r.username

(***************************************************************************)
(* Statements about the login gate and the session (checked under Spec).  *)
(***************************************************************************)
\* the SESSION entry of the settings file, where there is one
FileHasSession == settings.kind = "object" /\ "SESSION" \in DOMAIN settings.data
FileSession == settings.data["SESSION"]

\* the file holds a session that expires strictly after the clock's reading
\* and whose username, once normalized, is that of a stored record
SessionGood ==
    /\ FileHasSession
    /\ FileSession.expires_at[2] > now
    /\ \E r \in users : r.username = Normalize(FileSession.username)

\* C6: the session check at startup leads to the main UI, with no store
\* write (so no verify_user) and no LoginFrame, exactly if the settings file
\* holds a SESSION that expires strictly after now and whose username is
\* that of a stored record, and then the current user is that record;
\* otherwise it leads to the LoginFrame.
C6_AutoLoginIffSessionGood ==
    [][pc = "checking_session" /\ pc' # pc =>
         /\ pc' \in {"main", "login"}
         /\ pc' = "main" <=> SessionGood
         /\ pc' = "main" =>
              /\ users' = users /\ frame' = NoFrame /\ pending' = <<>>
              /\ \E r \in users :
                    /\ r.username = Normalize(FileSession.username)
                    /\ CURRENT_USER'.id = r.id
                    /\ CURRENT_USER'.username = FileSession.username
         /\ pc' = "login" => CURRENT_USER' = NoUser /\ frame'.mode \in {"login", "register"}
      ]_vars

\* the main UI was reached at startup through a session this application
\* wrote, before it expired
C6_Witness ==
    /\ pc = "main" /\ auth = "session"
    /\ FileHasSession /\ FileSession.username = Normalize(FileSession.username)
    /\ now < FileSession.expires_at[2]

\* C7: whenever the main UI is built (unlocked, or locked by the re-login
\* overlay), CURRENT_USER is the id and, up to normalization, the username
\* of one stored record.
C7_CurrentUserIsARecord ==
    pc \in {"main", "overlay"} =>
        \E r \in users :
            /\ r.id = CURRENT_USER.id
            /\ r.username = Normalize(CURRENT_USER.username)

\* two users are registered; the second has signed in at an earlier instant
\* and the first is the one signed in now
C7_Witness ==
    /\ pc = "main" /\ auth = "submit"
    /\ Cardinality(users) = 2
    /\ CURRENT_USER.id = 1
    /\ \E r \in users : r.id = 2 /\ r.last_login # NULL /\ r.last_login < now

\* C8: a _finalize whose save_settings call returns leaves every key of the
\* settings document other than SESSION in place with its value.
C8_SiblingKeysKept ==
    [][Finalize("saved") =>
         \A k \in DOMAIN load_settings(settings) \ {"SESSION"} :
            /\ settings'.kind = "object"
            /\ k \in DOMAIN settings'.data
            /\ settings'.data[k] = settings.data[k]
      ]_vars

\* a session was saved into a document that holds connection settings, and
\* one was removed from it
C8_Witness ==
    /\ pc = "main" /\ auth = "submit"
    /\ settings.kind = "object"
    /\ DOMAIN settings.data = {"AWS_REGION", "AWS_SECRET_ACCESS_KEY", "SESSION"}
    /\ FileSession # StaleSession

\* C9: a logout leaves no SESSION entry in the settings document, and the
\* next start after a logout does not reach the main UI by the session.
C9_LogoutEndsSession ==
    [][/\ Logout => ~(settings'.kind = "object" /\ "SESSION" \in DOMAIN settings'.data)
       /\ (auth = "logout" /\ pc = "checking_session") => pc' # "main"
      ]_vars

\* C10 as claimed: _finalize with "Keep me signed in" set leaves in the
\* settings document the one SESSION entry, for the username it hands to the
\* host and expiring SESSION_DAYS after now, whatever SESSION was there
\* before, and the host gets the pair _finalize was called with.
C10_SessionWritten ==
    [][(_finalize /\ frame.keep) =>
         /\ settings'.kind = "object" /\ "SESSION" \in DOMAIN settings'.data
         /\ settings'.data["SESSION"].username = Head(pending).username
         /\ settings'.data["SESSION"].expires_at = <<"iso", now + SESSION_DAYS>>
         /\ settings'.data["SESSION"].token \in Tokens
         /\ pc' = "main"
         /\ CURRENT_USER' = [id |-> Head(pending).user_id,
                             username |-> Head(pending).username]
      ]_vars

\* C10 amended: _finalize with "Keep me signed in" set, when its
\* save_settings call returns, leaves in the settings document the one
\* SESSION entry, for the username it hands to the host and expiring
\* SESSION_DAYS after now, whatever SESSION was there before; when the call
\* raises, the document holds what it held or nothing readable, and never a
\* new session. Either way the host gets, in the same step, the pair
\* _finalize was called with, which is a stored record.
C10_SessionWrittenIfSaved ==
    [][(_finalize /\ frame.keep) =>
         /\ Finalize("saved") =>
              /\ settings'.kind = "object" /\ "SESSION" \in DOMAIN settings'.data
              /\ settings'.data["SESSION"].username = Head(pending).username
              /\ settings'.data["SESSION"].expires_at = <<"iso", now + SESSION_DAYS>>
              /\ settings'.data["SESSION"].token \in Tokens
         /\ ~Finalize("saved") => settings' \in {settings, FileCorrupt}
         /\ pc' = "main"
         /\ CURRENT_USER' = [id |-> Head(pending).user_id,
                             username |-> Head(pending).username]
         /\ \E r \in users : r.id = CURRENT_USER'.id
                             /\ r.username = CURRENT_USER'.username
      ]_vars

\* a sign-in at a later instant has replaced the session of an earlier one
\* by a session of another user
C10_Witness ==
    /\ pc = "main" /\ auth = "submit" /\ now = 7
    /\ FileHasSession
    /\ FileSession.username = CURRENT_USER.username
    /\ FileSession.expires_at = <<"iso", now + SESSION_DAYS>>
    /\ CURRENT_USER.id = 2

\* C11: a LoginFrame that has just been built (by _start_login or by the
\* re-login overlay) is in mode "register" exactly if the table of users is
\* empty at that moment, and in mode "login" otherwise; once a registration
\* has succeeded, every LoginFrame built starts in mode "login".
C11_InitialModeByUserCount ==
    [][(pc' \in {"login", "overlay"} /\ pc' # pc) =>
         /\ frame'.mode \in {"login", "register"}
         /\ frame'.mode = "register" <=> user_count(users) = 0
         /\ cred # << >> => frame'.mode = "login"
      ]_vars

\* after a registration and a new start without a usable session, the
\* LoginFrame just built is in mode "login"
C11_Witness ==
    /\ pc = "login" /\ cred # << >>
    /\ frame = LoginFrame(users) /\ frame.mode = "login"
    /\ auth = "submit"

(***************************************************************************)
(* Statements about submissions of the LoginFrame (checked under SpecForm).*)
(***************************************************************************)
\* the step is a submission; with the store working
Submitted == \E salt \in FormSalts, fault \in StoreFaults : _submit(salt, fault)
SubmittedNoFault == \E salt \in FormSalts : _submit(salt, "none")

\* the username, password and confirmation a submission works on
SubmitUsername == Normalize(frame.username)

LocalMessages ==
    {"username_short", "username_chars", "password_short", "mismatch"}

\* the failure a register submission is to report: that of the first check
\* that fails in the order username length, username characters, password
\* length, confirmation, username taken ("": none fails)
FirstFailure ==
    IF Len(SubmitUsername) < MIN_USERNAME_LEN THEN "username_short"
    ELSE IF ~isalnum(WithoutUnderscore(SubmitUsername)) THEN "username_chars"
    ELSE IF Len(frame.password) < MIN_PASSWORD_LEN THEN "password_short"
    ELSE IF frame.password # frame.confirm THEN "mismatch"
    ELSE IF \E r \in users : r.username = SubmitUsername THEN "exists"
    ELSE ""

\* C12: a register submission that fails a check reports the failure of the
\* first failing check in the order username length, username characters,
\* password length, confirmation, username taken (unless the store fails).
C12_FirstFailingCheckReported ==
    [][(frame.mode = "register" /\ FirstFailure # "" /\ Submitted
            /\ ~calls'.raised)
         => frame'.message = FirstFailure
      ]_vars

\* a username that is too short, submitted with a confirmation that does
\* not match, got the username-length message
C12_Witness ==
    /\ frame.mode = "register" /\ frame.message = "username_short"
    /\ Len(Normalize(frame.username)) < MIN_USERNAME_LEN
    /\ frame.password # frame.confirm
    /\ Len(frame.password) >= MIN_PASSWORD_LEN

\* the characters [A-Za-z0-9_] among those of the model
WordChars == {"a", "A", "p", "q", "_"}
WellFormedUsername(u) ==
    Len(u) >= MIN_USERNAME_LEN /\ \A i \in 1..Len(u) : u[i] \in WordChars

\* the submission passes the username check of _submit
PassesUsernameCheck ==
    RegisterChecks(SubmitUsername, frame.password, frame.confirm)
        \notin {"username_short", "username_chars"}

\* C13: a register submission passes the username check exactly if the
\* (trimmed, lower-cased) username has at least 3 characters, all of them in
\* [A-Za-z0-9_]; and every stored username is of that form.
C13_UsernameCheck ==
    /\ [][(frame.mode = "register" /\ Submitted) =>
             (PassesUsernameCheck <=> WellFormedUsername(SubmitUsername))
         ]_vars
    /\ [](\A r \in users : WellFormedUsername(r.username))

\* the submission fails a local validation of the register form
FailsLocalValidation ==
    \/ RegisterChecks(SubmitUsername, frame.password, frame.confirm) # ""
    \/ Len(SubmitUsername) < MIN_USERNAME_LEN
    \/ Len(frame.password) < MIN_PASSWORD_LEN
    \/ frame.password # frame.confirm

\* C14: a register submission that fails a local validation (username too
\* short or rejected for its characters, password too short, confirmation
\* different) reports that failure, calls no store operation and leaves the
\* table of users, the settings document and the running pulses as they
\* were.
C14_LocalFailureTouchesNothing ==
    [][(frame.mode = "register" /\ FailsLocalValidation /\ Submitted) =>
         /\ frame'.message \in LocalMessages
         /\ calls' = NoCalls
         /\ users' = users /\ cred' = cred
         /\ settings' = settings
         /\ pending' = pending /\ pc' = pc /\ CURRENT_USER' = CURRENT_USER
      ]_vars

\* a confirmation that does not match was reported on a form whose
\* username and password are acceptable and not yet registered
C14_Witness ==
    /\ frame.mode = "register" /\ frame.message = "mismatch"
    /\ frame.username = <<"a", "a", "_">> /\ frame.password = P8
    /\ frame.confirm = Q8
    /\ users = {} /\ calls = NoCalls

\* the rows of the table without that of the username submitted
WithoutSubmittedUser == {r \in users : r.username # SubmitUsername}

\* a login submission with both fields filled, for a username that has no
\* record or with a password that is not the one the record was set with
LoginWithBadCredentials ==
    /\ frame.mode = "login"
    /\ SubmitUsername # <<>> /\ frame.password # <<>>
    /\ \A r \in users :
          r.username = SubmitUsername =>
             ~SameUpToTrailingNul(cred[r.id].password, frame.password)

\* C15: a login submission with bad credentials (while the store works)
\* shows the one message "invalid", starts no pulse, writes no session,
\* hands nothing to the host and changes nothing else; and it ends the same
\* way, with the same message, on the table without the record of that
\* username.
C15_FailedLoginDisclosesNothing ==
    [][(LoginWithBadCredentials /\ SubmittedNoFault) =>
         /\ frame' = [frame EXCEPT !.message = "invalid"]
         /\ pending' = pending /\ pc' = pc
         /\ settings' = settings /\ CURRENT_USER' = CURRENT_USER
         /\ users' = users
         /\ \A salt \in FormSalts :
              LET here == SubmitOutcome(frame, users, salt, now, "none")
                  there == SubmitOutcome(frame, WithoutSubmittedUser, salt,
                                         now, "none")
              IN /\ here.message = there.message /\ here.id = there.id
                 /\ here.users = users /\ there.users = WithoutSubmittedUser
      ]_vars

\* a wrong password for a registered user was turned down
C15_Witness ==
    /\ frame.mode = "login" /\ frame.message = "invalid"
    /\ calls = Calls(<<"verify_user">>, FALSE)
    /\ pending = <<>> /\ pc = "login"
    /\ \E r \in users :
          /\ r.username = Normalize(frame.username)
          /\ cred[r.id].password # frame.password
          /\ r.last_login = NULL

\* C17: a submission during which a store operation raises shows an error
\* message, stays where it was with no pulse started, no session written
\* and nothing handed to the host.
C17_StoreErrorReported ==
    [][(Submitted /\ calls'.raised) =>
         /\ frame'.message = "store_error"
         /\ pending' = pending /\ pc' = pc
         /\ settings' = settings /\ CURRENT_USER' = CURRENT_USER
      ]_vars

(***************************************************************************)
(* Further statements about the Credential Store (checked under SpecStore  *)
(* and SpecLegacy).                                                        *)
(***************************************************************************)
\* every record still verifies with the password it was last set with
CorrectPasswordVerifies ==
    \A r \in users :
        verify_user(users, r.username, cred[r.id].password, now).id = r.id

\* C16 as claimed: verify_user with a password other than the stored one,
\* for a username that has a record, returns None without raising and
\* leaves the table as it was; and every record still verifies with its
\* password afterwards.
C16_WrongPasswordHarmless ==
    /\ [][ret'.op = "verify_user" =>
           \A u \in Usernames, p \in Passwords :
             (/\ CallVerifyUser(u, p)
              /\ \E r \in users : /\ r.username = Normalize(u)
                                   /\ cred[r.id].password # p)
             => /\ ret'.id = None /\ ~ret'.raised
                /\ users' = users
         ]_vars
    /\ []CorrectPasswordVerifies

\* C16 amended: verify_user with a password that differs from the stored
\* one otherwise than by trailing U+0000 characters, for a username that has
\* a record, returns None without raising and leaves the table as it was;
\* and every record still verifies with its password afterwards.
C16_WrongPasswordHarmlessUpToNul ==
    /\ [][ret'.op = "verify_user" =>
           \A u \in Usernames, p \in Passwords :
             (/\ CallVerifyUser(u, p)
              /\ \E r \in users :
                    /\ r.username = Normalize(u)
                    /\ ~SameUpToTrailingNul(cred[r.id].password, p))
             => /\ ret'.id = None /\ ~ret'.raised
                /\ users' = users
         ]_vars
    /\ []CorrectPasswordVerifies

\* a wrong password was just turned down for a user who had signed in
\* before and whose password was never changed
C16_Witness ==
    /\ ret.op = "verify_user" /\ ret.id = None
    /\ \E r \in users : /\ r.last_login # NULL
                         /\ cred[r.id].via = "create"
    /\ Cardinality(users) = 1

\* the row with the given id before and after the step
RowBefore(i) == CHOOSE r \in users : r.id = i
RowAfter(i) == CHOOSE r \in users' : r.id = i

\* what change_password is to leave of the table: the row of user i with
\* the default iteration count and its id, username and created_at, and
\* every other row as it was
ChangeKeepsTheRest(i) ==
    /\ {r.id : r \in users'} = {r.id : r \in users}
    /\ RowAfter(i).iterations = PBKDF2_ITERATIONS
    /\ RowAfter(i).username = RowBefore(i).username
    /\ RowAfter(i).created_at = RowBefore(i).created_at
    /\ \A r \in users : r.id # i => r \in users'

\* C19 as claimed: after change_password(i, p) for a stored id i,
\* verify_user with p returns i and verify_user with the former password,
\* if it is another one, returns None; the row has the default iteration
\* count and its id, username and created_at; the other rows are unchanged.
C19_ChangePassword ==
    [][ret'.op = "change_password" =>
         \A i \in {r.id : r \in users}, p \in Passwords :
           CallChangePassword(i, p) =>
             /\ verify_user(users', RowBefore(i).username, p, now).id = i
             /\ cred[i].password # p =>
                  verify_user(users', RowBefore(i).username,
                              cred[i].password, now).id = None
             /\ ChangeKeepsTheRest(i)
      ]_vars

\* C19 amended: the same, the former password being turned down if it
\* differs from p otherwise than by trailing U+0000 characters.
C19_ChangePasswordUpToNul ==
    [][ret'.op = "change_password" =>
         \A i \in {r.id : r \in users}, p \in Passwords :
           CallChangePassword(i, p) =>
             /\ verify_user(users', RowBefore(i).username, p, now).id = i
             /\ ~SameUpToTrailingNul(cred[i].password, p) =>
                  verify_user(users', RowBefore(i).username,
                              cred[i].password, now).id = None
             /\ ChangeKeepsTheRest(i)
      ]_vars

\* the password of the row created under the older default was changed,
\* next to a second row that was not touched
C19_Witness ==
    /\ ret.op = "change_password"
    /\ Cardinality(users) = 2
    /\ cred[1].via = "change" /\ cred[1].password = Q8
    /\ cred[2].via = "create"
    /\ \E r \in users : r.id = 1 /\ r.iterations = PBKDF2_ITERATIONS

\* C20: verify_user accepts a password exactly if its hash under the salt
\* and the iteration count stored in the row equals the stored hash; a row
\* whose password was never changed verifies with the password it was
\* created with, whatever its iteration count; and the iteration count of a
\* row changes in no step but a change_password.
C20_StoredCostUsed ==
    /\ [][ret'.op = "verify_user" =>
           \A u \in Usernames, p \in Passwords :
             CallVerifyUser(u, p) =>
               (ret'.id # None <=>
                  \E r \in users :
                     /\ r.username = Normalize(u) /\ r.id = ret'.id
                     /\ pbkdf2_hmac(p, r.salt, r.iterations) = r.password_hash)
         ]_vars
    /\ [][\A r \in users : \A r2 \in users' :
             (r2.id = r.id /\ r2.iterations # r.iterations)
                => ret'.op = "change_password"
         ]_vars
    /\ [](\A r \in users :
            cred[r.id].via = "create" =>
               verify_user(users, r.username, cred[r.id].password, now).id = r.id)

\* the row created under the older default has verified and still has its
\* iteration count, next to a row created under the current default
C20_Witness ==
    /\ ret.op = "verify_user" /\ ret.id = 1
    /\ \E r \in users : /\ r.id = 1 /\ r.iterations = OlderIterations
                         /\ r.last_login # NULL
    /\ \E r \in users : r.id = 2 /\ r.iterations = PBKDF2_ITERATIONS

(***************************************************************************)
(* Statements about the settings file at startup (checked under            *)
(* SpecStartup).                                                           *)
(***************************************************************************)
\* the SESSION entry is there but damaged: not an object, or without a
\* username, or without an expiry, or with an expiry that does not parse
MalformedSession ==
    /\ settings.kind = "object" /\ "SESSION" \in DOMAIN settings.data
    /\ LET v == settings.data["SESSION"]
       IN \/ ~IsObject(v)
          \/ "username" \notin DOMAIN v
          \/ "expires_at" \notin DOMAIN v
          \/ ~Parseable(v.expires_at)

\* C18: load_settings does not raise on any file; it returns the object
\* stored in a file that holds a JSON object and the empty map for every
\* other file (absent, unreadable, empty, not JSON, JSON but no object); and
\* the session check at startup, on a damaged SESSION entry or a file that
\* gives the empty map, ends without an error in the LoginFrame.
C18_DamagedSettingsNeverBlock ==
    /\ [](/\ ~load_settingsRaises(settings)
          /\ load_settings(settings) =
                IF settings.kind = "object" THEN settings.data ELSE EmptyDict)
    /\ [][(pc = "checking_session" /\ pc' # pc) =>
             /\ pc' \in {"login", "main"}
             /\ (MalformedSession \/ settings.kind # "object") =>
                  /\ pc' = "login"
                  /\ frame' = LoginFrame(users)
                  /\ CURRENT_USER' = NoUser
         ]_vars

\* the LoginFrame is up although the file holds a SESSION whose expiry does
\* not parse, for a registered user
C18_Witness ==
    /\ pc = "login"
    /\ MalformedSession
    /\ "expires_at" \in DOMAIN settings.data["SESSION"]
    /\ ~Parseable(settings.data["SESSION"].expires_at)
    /\ \E r \in users : r.username = settings.data["SESSION"].username

\* C22: a verify_user that returns an id leaves the matched row with its
\* id, username, password_hash, salt, iterations and created_at, writes
\* nothing but its last_login and updated_at, and leaves every other row as
\* it was.
C22_VerifyStampsOnly ==
    [][(ret'.op = "verify_user" /\ ret'.id # None) =>
         /\ {r.id : r \in users'} = {r.id : r \in users}
         /\ RowAfter(ret'.id) =
               [RowBefore(ret'.id) EXCEPT !.last_login = now, !.updated_at = now]
         /\ \A r \in users : r.id # ret'.id => r \in users'
      ]_vars

\* a user has verified for the first time next to a user created since whose
\* row shows no sign-in
C22_Witness ==
    /\ ret.op = "verify_user" /\ ret.id = 1
    /\ Cardinality(users) = 2
    /\ \E r \in users : r.id = 1 /\ r.last_login # NULL
    /\ \E r \in users : r.id = 2 /\ r.last_login = NULL

(***************************************************************************)
(* Statements about the session at startup, the mode toggle, empty fields  *)
(* and cancelling.                                                         *)
(***************************************************************************)
\* C23: when the session check at startup finds a SESSION entry whose
\* expiry is not after now, the settings document holds no SESSION entry
\* after the check.
C23_ExpiredSessionDeleted ==
    [][(/\ pc = "checking_session" /\ pc' # pc
        /\ FileHasSession /\ FileSession.expires_at[2] <= now)
         => ~(settings'.kind = "object" /\ "SESSION" \in DOMAIN settings'.data)
      ]_vars

\* C24: every _toggle_mode flips the mode, whatever the number of users,
\* and leaves the password and the confirmation empty, so that the fields a
\* later submission reads were typed after the toggle.
C24_ToggleFlipsAndClears ==
    [][_toggle_mode =>
         /\ frame.mode = "login" => frame'.mode = "register"
         /\ frame.mode = "register" => frame'.mode = "login"
         /\ frame'.password = <<>> /\ frame'.confirm = <<>>
         /\ users' = users /\ pc' = pc /\ pending' = pending
         /\ settings' = settings
      ]_vars

\* the form was toggled to "register" on a store that holds a user: the
\* mode is not the one a fresh frame would have, and the password fields
\* are empty
C24_Witness ==
    /\ pc = "login" /\ users # {}
    /\ frame.mode = "register" /\ frame.mode # InitialMode(user_count(users))
    /\ frame.password = <<>> /\ frame.confirm = <<>>
    /\ frame.message = "" /\ pending = <<>>

\* C25: a login submission with an empty username (after trimming) or an
\* empty password calls no store operation, starts no pulse, writes no
\* session and hands nothing over; and a login submission calls verify_user
\* only with both non-empty.
C25_EmptyFieldsStayLocal ==
    [][(frame.mode = "login" /\ Submitted) =>
         /\ (strip(frame.username) = <<>> \/ frame.password = <<>>) =>
              /\ calls' = NoCalls
              /\ frame'.message = "enter_both" /\ frame'.mode = "login"
              /\ users' = users /\ settings' = settings
              /\ pending' = pending /\ pc' = pc
              /\ CURRENT_USER' = CURRENT_USER
         /\ calls'.ops # <<>> =>
              /\ calls'.ops = <<"verify_user">>
              /\ strip(frame.username) # <<>> /\ frame.password # <<>>
      ]_vars

\* a blank username was submitted with a password on the login form of a
\* store that holds a user
C25_Witness ==
    /\ frame.mode = "login" /\ frame.message = "enter_both"
    /\ frame.username = <<" ", " ">> /\ frame.password = P8
    /\ users # {} /\ pending = <<>> /\ pc = "login" /\ calls = NoCalls

\* C26: a cancel ends the process or, on the re-login overlay, changes
\* nothing; it never unlocks the main UI: the only step that takes a shown
\* LoginFrame to the unlocked main UI is _finalize, the end of a successful
\* submission.
C26_CancelNeverUnlocks ==
    [][/\ _cancel =>
            /\ pc' # "main"
            /\ pc = "login" => pc' = "exited"
            /\ pc = "overlay" => (pc' = "exited" \/ UNCHANGED vars)
            /\ pc' = "exited" => CURRENT_USER' = NoUser
       /\ (FrameShown /\ pc' = "main") => _finalize
      ]_vars

\* the process has ended from the re-login overlay of a signed-in user
C26_Witness ==
    /\ pc = "exited" /\ auth = "logout"
    /\ CURRENT_USER = NoUser /\ frame = NoFrame
    /\ users # {}


(***************************************************************************)
(* Statements about the Settings tab, the hand-off to the host and the     *)
(* session _finalize leaves behind.                                        *)
(***************************************************************************)
\* the keys of the settings document the Settings tab does not edit
UneditedKeys(cfg) == DOMAIN cfg \ DOMAIN _collect_settings("", "")

\* C27: a save from the Settings tab leaves the SESSION entry and every
\* other key it does not edit as they were in the settings document, so a
\* restart after a login with persistence and a settings save still finds
\* the session
C27_SaveKeepsSession ==
    [][(pc = "main" /\ pc' = "main" /\ settings.kind = "object"
            /\ settings'.kind = "object")
        => \A k \in UneditedKeys(settings.data) :
              /\ k \in DOMAIN settings'.data
              /\ settings'.data[k] = settings.data[k]]_vars

\* C28: whatever is submitted, and however many success pulses a LoginFrame
\* has started, it calls on_success at most once and save_settings at most
\* once
C28_HandsOverOnce ==
    /\ flow.handoffs <= 1
    /\ flow.writes <= 1

\* the frame handed over once although <Return> had started a second pulse
C28_Witness ==
    /\ pc = "main"
    /\ flow.pulses = 2
    /\ flow.handoffs = 1
    /\ flow.writes = 1

\* a step that is _finalize of a frame whose "Keep me signed in" is off
FinalizedWithoutKeep == flow'.handoffs = flow.handoffs + 1 /\ ~frame.keep

\* C29 as stated: after _finalize with persistence not opted in the
\* settings document holds no SESSION entry, and the host has the user
C29_NoKeepRemovesSession ==
    [][FinalizedWithoutKeep
        => /\ ~HasSession(load_settings(settings'))
           /\ pc' = "main"
           /\ CURRENT_USER' = OnSuccessUser(Head(pending).user_id,
                                            Head(pending).username)]_vars

\* C29: _finalize with persistence not opted in hands the user to the host
\* whether or not save_settings raised; when save_settings returned, the
\* settings document is an object without SESSION entry, and a start of the
\* application unlocks without login only on a document with a SESSION
\* entry
C29_NoKeepRemovesSessionIfSaved ==
    /\ [][FinalizedWithoutKeep
            => /\ pc' = "main"
               /\ CURRENT_USER' = OnSuccessUser(Head(pending).user_id,
                                                Head(pending).username)
               /\ flow'.saved
                    => /\ settings'.kind = "object"
                       /\ ~HasSession(load_settings(settings'))
                       /\ settings'.data
                            = DictPop(load_settings(settings), "SESSION")]_vars
    /\ [][(pc = "checking_session" /\ pc' = "main")
            => HasSession(load_settings(settings))]_vars

\* a document that held the connection settings and an older SESSION,
\* after a hand-off that removed the SESSION
C29_Witness ==
    /\ pc = "main"
    /\ auth = "submit"
    /\ flow.handoffs = 1
    /\ flow.saved
    /\ settings = FileObject(ConnCfg)

(***************************************************************************)
(* Statements about two registrations of one username at the same time.    *)
(***************************************************************************)
RaceOver == \A p \in Procs : race[p].at = "done"
RaceRows == SelectByUsername(users, <<"a", "a", "_">>)

\* C21 as stated: once both submissions are over, one create_user has
\* inserted the one row and the create_user of the other has raised
C21_LoserGetsDuplicateUser ==
    RaceOver =>
        \E w \in Procs :
            /\ race[w].created
            /\ Cardinality(RaceRows) = 1
            /\ \A l \in Procs \ {w} :
                  /\ ~race[l].created
                  /\ race[l].result = "raised"

\* C21: however the store calls of two registrations of one normalized
\* username interleave, the table never holds two rows for it, and once
\* both submissions are over exactly one create_user has inserted the one
\* row, under the password of its submission, and that submission is the
\* one authenticated; the other was turned away by the uniqueness
\* constraint in create_user when it had passed the pre-check, by the
\* pre-check otherwise, and has started no success pulse
C21_OneRegistrationWins ==
    /\ Cardinality(RaceRows) <= 1
    /\ RaceOver =>
        \E w \in Procs :
            /\ race[w].created
            /\ race[w].result = "pulse"
            /\ RaceRows = users
            /\ \E r \in RaceRows :
                  /\ r.id = race[w].user_id
                  /\ cred[r.id].password = race[w].password
                  /\ HashMatches(r, race[w].password)
            /\ \A l \in Procs \ {w} :
                  /\ ~race[l].created
                  /\ race[l].user_id = None
                  /\ race[l].result
                        = IF race[l].checked THEN "raised" ELSE "exists"

\* both submissions passed the pre-check before either inserted, with
\* different passwords and differently typed usernames
C21_Witness ==
    /\ RaceOver
    /\ \A p \in Procs : race[p].checked
    /\ \E w, l \in Procs :
          /\ race[w].result = "pulse"
          /\ race[l].result = "raised"
          /\ race[w].password # race[l].password
          /\ race[w].username # race[l].username

(***************************************************************************)
(* Statements about the upload worker.                                     *)
(***************************************************************************)
\* a worker for which upload_cancel was pressed is running with
\* cancel_event clear
CancelLost ==
    \E i \in DOMAIN upload.workers :
        upload.workers[i].cancelled /\ ~upload.cancel_event

\* C30: at most one upload worker runs; _upload_busy is true exactly while
\* a worker runs or its _rearm is still queued, so it is false after an
\* upload_start that validation rejected; and no worker a cancel was
\* requested for runs with cancel_event cleared
C30_OneWorkerBusyWhileActive ==
    /\ Len(upload.workers) <= 1
    /\ upload.busy <=> (upload.workers # <<>> \/ upload.rearms > 0)
    /\ ~CancelLost
====
